---- MODULE Spec2Model ----
(***************************************************************************)
(* Workspace state engine of the pixel-shape editor: the zustand store     *)
(* (src/src/stores/workspace-store.ts) and its persistence pipeline        *)
(* (src/src/utils/workspace-storage.ts).                                   *)
(*                                                                         *)
(* A JavaScript number is a record [k, n, d]: k = "fin" is the rational    *)
(* n/d in lowest terms with d > 0, k = "nan" is NaN, k = "inf" / "ninf"    *)
(* are +Infinity / -Infinity, and k = "null" is the value null where the   *)
(* source's type is number | null.                                         *)
(***************************************************************************)
EXTENDS Integers, Sequences, FiniteSets, TLC

(***************************************************************************)
(* Bounds of the model.                                                    *)
(***************************************************************************)
MaxShapes == 2
MaxMs == 1
MaxQuanta == 3
MaxStored == 3
MaxLayers == 3

(***************************************************************************)
(* JavaScript numbers.                                                     *)
(***************************************************************************)
Abs(i) == IF i < 0 THEN 0 - i ELSE i

RECURSIVE Gcd(_, _)
Gcd(a, b) == IF b = 0 THEN a ELSE Gcd(b, a % b)

Rat(n, d) ==
  LET s == IF d < 0 THEN 0 - 1 ELSE 1
      g == Gcd(Abs(n), Abs(d))
  IN  [k |-> "fin", n |-> (s * n) \div g, d |-> (s * d) \div g]

Num(i) == [k |-> "fin", n |-> i, d |-> 1]
NaN == [k |-> "nan", n |-> 0, d |-> 1]
PosInf == [k |-> "inf", n |-> 0, d |-> 1]
NegInf == [k |-> "ninf", n |-> 0, d |-> 1]
Null == [k |-> "null", n |-> 0, d |-> 1]

IsFinite(a) == a.k = "fin"
Sign(a) ==
  CASE a.k = "inf" -> 1
    [] a.k = "ninf" -> 0 - 1
    [] OTHER -> IF a.n > 0 THEN 1 ELSE IF a.n < 0 THEN 0 - 1 ELSE 0

\* a < b; every comparison with NaN is false
Lt(a, b) ==
  CASE a.k = "nan" \/ b.k = "nan" -> FALSE
    [] a.k = "ninf" -> b.k # "ninf"
    [] a.k = "inf" -> FALSE
    [] b.k = "inf" -> TRUE
    [] b.k = "ninf" -> FALSE
    [] OTHER -> a.n * b.d < b.n * a.d

Le(a, b) == Lt(a, b) \/ (a.k # "nan" /\ b.k # "nan" /\ a = b)
Gt(a, b) == Lt(b, a)
Ge(a, b) == Le(b, a)
\* a !== b on numbers: NaN differs from everything, itself included
StrictNeq(a, b) == a.k = "nan" \/ b.k = "nan" \/ a # b
\* !a on a number or null
Falsy(a) == a.k \in {"null", "nan"} \/ a = Num(0)

MathMin(a, b) ==
  IF a.k = "nan" \/ b.k = "nan" THEN NaN ELSE IF Lt(b, a) THEN b ELSE a
MathMax(a, b) ==
  IF a.k = "nan" \/ b.k = "nan" THEN NaN ELSE IF Lt(a, b) THEN b ELSE a

Neg(a) ==
  CASE a.k = "inf" -> NegInf
    [] a.k = "ninf" -> PosInf
    [] a.k = "fin" -> [k |-> "fin", n |-> 0 - a.n, d |-> a.d]
    [] OTHER -> a

Add(a, b) ==
  CASE a.k = "nan" \/ b.k = "nan" -> NaN
    [] a.k = "fin" /\ b.k = "fin" -> Rat(a.n * b.d + b.n * a.d, a.d * b.d)
    [] a.k = "fin" -> b
    [] b.k = "fin" -> a
    [] OTHER -> IF a.k = b.k THEN a ELSE NaN

Sub(a, b) == Add(a, Neg(b))

Mul(a, b) ==
  CASE a.k = "nan" \/ b.k = "nan" -> NaN
    [] a.k = "fin" /\ b.k = "fin" -> Rat(a.n * b.n, a.d * b.d)
    [] OTHER -> IF Sign(a) * Sign(b) = 0 THEN NaN
                ELSE IF Sign(a) * Sign(b) > 0 THEN PosInf ELSE NegInf

Div(a, b) ==
  CASE a.k = "nan" \/ b.k = "nan" -> NaN
    [] a.k = "fin" /\ b.k = "fin" ->
         IF b.n # 0 THEN Rat(a.n * b.d, a.d * b.n)
         ELSE IF a.n = 0 THEN NaN ELSE IF a.n > 0 THEN PosInf ELSE NegInf
    [] a.k = "fin" -> Num(0)
    [] b.k = "fin" ->
         IF (Sign(a) > 0) = (b.n >= 0) THEN PosInf ELSE NegInf
    [] OTHER -> NaN

\* Math.round: the nearest integer, halves towards +Infinity
MathRound(a) ==
  IF a.k = "fin" THEN Num((2 * a.n + a.d) \div (2 * a.d)) ELSE a

clamp(value, min, max) == MathMax(min, MathMin(max, value))

(***************************************************************************)
(* Program constants.  MIN_ZOOM and MAX_ZOOM come from                     *)
(* constants/pixel-shape, which the store imports; the store's default     *)
(* zoom of 10 lies between them.                                           *)
(***************************************************************************)
MIN_ZOOM == 1
MAX_ZOOM == 50
DEBOUNCE_MS == 400
VERSION == 1
PADDING == 50

ShapeTypes == {"ellipse", "crescent", "box"}

(***************************************************************************)
(* State.                                                                  *)
(***************************************************************************)
VARIABLES
  shapeState,           \* [ids: sequence of ids, entities: id -> ShapeData]
  selectedShapeId,      \* an id or Null
  currentShapeType, formWidth, formHeight, formBaseColor, formOpacity,
  zoom, canvasOffset,
  isControlsPanelOpen, isShapeListOpen,
  now,                  \* Date.now(), in ms
  storage,              \* the localStorage item under STORAGE_KEY
  persisted,            \* what loadWorkspace returned to initWorkspacePersistence
  phase,                \* "boot" before initWorkspacePersistence, "running", "torn"
  subscribed,           \* the store subscription of initWorkspacePersistence is active
  debounceTimer,        \* "null" or "handle": the closure variable debounceTimer
  timer,                \* the browser's timer: [pending, due]
  lastMutation,         \* time of the last qualifying store update, -1 when none
  burstWrites,          \* storage writes since the current burst began
  last                  \* the last call: its name, arguments and return value

draftVars == <<currentShapeType, formWidth, formHeight, formBaseColor, formOpacity>>
viewVars == <<zoom, canvasOffset>>
uiVars == <<isControlsPanelOpen, isShapeListOpen>>
storeVars == <<shapeState, selectedShapeId, draftVars, viewVars, uiVars>>
timerVars == <<debounceTimer, timer, lastMutation, burstWrites>>
persistVars == <<storage, persisted, phase, subscribed, timerVars>>
vars == <<storeVars, now, persistVars, last>>

Pos(x, y) == [x |-> x, y |-> y]

\* a JavaScript object used as a map from ids: {} , {...e, [id]: v} , {[id]: _, ...rest}
EmptyMap == [i \in {} |-> i]
Put(e, id, v) == [i \in (DOMAIN e) \cup {id} |-> IF i = id THEN v ELSE e[i]]
Without(e, id) == [i \in (DOMAIN e) \ {id} |-> e[i]]
Has(e, id) == id \in DOMAIN e

DEFAULT_STATE ==
  [shapeState |-> [ids |-> <<>>, entities |-> EmptyMap],
   selectedShapeId |-> Null,
   currentShapeType |-> "ellipse",
   formWidth |-> Num(10),
   formHeight |-> Num(10),
   formBaseColor |-> "#007BFF",
   formOpacity |-> Num(1),
   zoom |-> Num(10),
   canvasOffset |-> Pos(Num(0), Num(0)),
   isControlsPanelOpen |-> FALSE,
   isShapeListOpen |-> FALSE]

\* the store's state as one record
State ==
  [shapeState |-> shapeState,
   selectedShapeId |-> selectedShapeId,
   currentShapeType |-> currentShapeType,
   formWidth |-> formWidth,
   formHeight |-> formHeight,
   formBaseColor |-> formBaseColor,
   formOpacity |-> formOpacity,
   zoom |-> zoom,
   canvasOffset |-> canvasOffset,
   isControlsPanelOpen |-> isControlsPanelOpen,
   isShapeListOpen |-> isShapeListOpen]

\* a call: id is its numeric argument, pos its {x, y} argument, i and j its indices
Call(op, ret) ==
  [op |-> op, ret |-> ret, id |-> Null, pos |-> Pos(Num(0), Num(0)),
   i |-> 0, j |-> 0, dir |-> ""]

(***************************************************************************)
(* Sequence helpers: Array.prototype.indexOf, filter and splice, on        *)
(* 0-based indices as in the source.                                       *)
(***************************************************************************)
Range(s) == {s[i] : i \in DOMAIN s}

\* ids.indexOf(x): the first 0-based index of x, or -1
indexOf(s, x) ==
  IF x \in Range(s) THEN (CHOOSE i \in DOMAIN s : s[i] = x /\ \A j \in 1..(i - 1) : s[j] # x) - 1
  ELSE 0 - 1

\* ids.filter((shapeId) => shapeId !== id)
filterNot(s, x) == SelectSeq(s, LAMBDA e : StrictNeq(e, x))

\* s.splice(start, 1) with 0 <= start: s without the element at start
spliceOut(s, start) ==
  IF start < Len(s) THEN SubSeq(s, 1, start) \o SubSeq(s, start + 2, Len(s)) ELSE s

\* s.splice(start, 0, x) with 0 <= start: x inserted at min(start, length)
spliceIn(s, start, x) ==
  LET at == IF start > Len(s) THEN Len(s) ELSE start
  IN  SubSeq(s, 1, at) \o <<x>> \o SubSeq(s, at + 1, Len(s))

(***************************************************************************)
(* The subscriber of initWorkspacePersistence.  zustand calls it inside    *)
(* every set() that produces a new state object; `qualifies` is the        *)
(* subscriber's own test (shapesChanged || viewChanged || uiChanged) on    *)
(* that update, FALSE when set() returned the old state.                   *)
(***************************************************************************)
\* Subscriber leaving a pending timer as it is instead of restarting it
Subscriber_keepsPendingTimer(qualifies) ==
  IF subscribed /\ qualifies
  THEN /\ debounceTimer' = "handle"
       /\ timer' = IF timer.pending THEN timer
                   ELSE [pending |-> TRUE, due |-> now + DEBOUNCE_MS]
       /\ lastMutation' = now
       /\ burstWrites' =
            IF lastMutation >= 0 /\ now - lastMutation < DEBOUNCE_MS
            THEN burstWrites ELSE 0
  ELSE UNCHANGED timerVars

\* Subscriber restarting the timer on every store update
Subscriber_anyUpdate(qualifies) ==
  IF subscribed
  THEN /\ debounceTimer' = "handle"
       /\ timer' = [pending |-> TRUE, due |-> now + DEBOUNCE_MS]
       /\ lastMutation' = now
       /\ burstWrites' =
            IF lastMutation >= 0 /\ now - lastMutation < DEBOUNCE_MS
            THEN burstWrites ELSE 0
  ELSE UNCHANGED timerVars

Subscriber(qualifies) ==
  IF subscribed /\ qualifies
  THEN /\ debounceTimer' = "handle"
       /\ timer' = [pending |-> TRUE, due |-> now + DEBOUNCE_MS]
       /\ lastMutation' = now
       /\ burstWrites' =
            IF lastMutation >= 0 /\ now - lastMutation < DEBOUNCE_MS
            THEN burstWrites ELSE 0
  ELSE UNCHANGED timerVars

Quiet == UNCHANGED <<now, storage, persisted, phase, subscribed>>

(***************************************************************************)
(* Inputs.                                                                 *)
(***************************************************************************)
Half == Rat(1, 2)
AddPositions == {Pos(Num(0), Num(0)), Pos(Rat(5, 2), Rat(0 - 5, 4))}
MovePositions == {Pos(Num(3), Half)}
Widths == {Null, Num(4)}
Heights == {Num(0)}
Colors == {"#FF0000"}
Opacities == {Half}
Directions == {"toFront", "toBack", "forward", "backward", "sideways"}
\* the ids a caller can name: those Date.now() can have produced, and 0
CallerIds == {Num(i) : i \in 0..(1 + MaxMs)}

\* InvalidDimensions testing the width alone
InvalidDimensions_widthOnly ==
  \/ formWidth = Null
  \/ Le(formWidth, Num(0))

\* InvalidDimensions testing for null alone
InvalidDimensions_nullOnly ==
  \/ formWidth = Null
  \/ formHeight = Null

InvalidDimensions ==
  \/ formWidth = Null
  \/ Le(formWidth, Num(0))
  \/ formHeight = Null
  \/ Le(formHeight, Num(0))

(***************************************************************************)
(* Shape actions.                                                          *)
(***************************************************************************)
DateNow == Num(now)

newShape(position) ==
  [id |-> DateNow,
   type |-> currentShapeType,
   width |-> formWidth,
   height |-> formHeight,
   baseColor |-> formBaseColor,
   opacity |-> formOpacity,
   position |-> Pos(MathRound(position.x), MathRound(position.y))]

addShapeState(position) ==
  [ids |-> Append(shapeState.ids, DateNow),
   entities |-> Put(shapeState.entities, DateNow, newShape(position))]

FormDefaults ==
  /\ selectedShapeId' = Null
  /\ currentShapeType' = "ellipse"
  /\ formWidth' = Num(10)
  /\ formHeight' = Num(10)
  /\ formBaseColor' = "#007BFF"
  /\ formOpacity' = Num(1)

addShape(position) ==
  /\ phase # "boot"
  /\ Quiet
  /\ IF InvalidDimensions
     THEN /\ UNCHANGED <<storeVars, timerVars>>
          /\ last' = [Call("addShape", FALSE) EXCEPT !.pos = position]
     ELSE /\ Len(shapeState.ids) < MaxShapes
          /\ shapeState' = addShapeState(position)
          /\ FormDefaults
          /\ UNCHANGED <<viewVars, uiVars>>
          /\ Subscriber(TRUE)
          /\ last' = [Call("addShape", TRUE) EXCEPT !.pos = position, !.id = DateNow]

updatedShape(existingShape) ==
  [existingShape EXCEPT
     !.width = formWidth,
     !.height = formHeight,
     !.baseColor = formBaseColor,
     !.opacity = formOpacity]

updateSelectedShape ==
  /\ phase # "boot"
  /\ Quiet
  /\ IF Falsy(selectedShapeId) \/ InvalidDimensions
     THEN /\ UNCHANGED <<storeVars, timerVars>>
          /\ last' = [Call("updateSelectedShape", FALSE) EXCEPT !.id = selectedShapeId]
     ELSE /\ last' = [Call("updateSelectedShape", TRUE) EXCEPT !.id = selectedShapeId]
          /\ IF ~Has(shapeState.entities, selectedShapeId)
             THEN UNCHANGED <<storeVars, timerVars>>
             ELSE /\ shapeState' =
                       [shapeState EXCEPT
                          !.entities = Put(@, selectedShapeId,
                                           updatedShape(@[selectedShapeId]))]
                  /\ FormDefaults
                  /\ UNCHANGED <<viewVars, uiVars>>
                  /\ Subscriber(TRUE)

removeShapeIds(id) == filterNot(shapeState.ids, id)

\* removeShape clearing the selection whenever the selected shape is removed
removeShape_clearsSelection(id) ==
  /\ phase # "boot"
  /\ Quiet
  /\ shapeState' = [ids |-> removeShapeIds(id),
                    entities |-> Without(shapeState.entities, id)]
  /\ selectedShapeId' = IF ~StrictNeq(selectedShapeId, id) THEN Null ELSE selectedShapeId
  /\ UNCHANGED <<draftVars, viewVars, uiVars>>
  /\ Subscriber(TRUE)
  /\ last' = [Call("removeShape", TRUE) EXCEPT !.id = id]

removeShape(id) ==
  /\ phase # "boot"
  /\ Quiet
  /\ shapeState' = [ids |-> removeShapeIds(id),
                    entities |-> Without(shapeState.entities, id)]
  /\ selectedShapeId' =
       IF ~StrictNeq(selectedShapeId, id)
       THEN IF Len(removeShapeIds(id)) > 0 THEN removeShapeIds(id)[1] ELSE Null
       ELSE selectedShapeId
  /\ UNCHANGED <<draftVars, viewVars, uiVars>>
  /\ Subscriber(TRUE)
  /\ last' = [Call("removeShape", TRUE) EXCEPT !.id = id]

\* moveShape rounding the position as addShape does
moveShape_roundsPosition(id, position) ==
  /\ phase # "boot"
  /\ Quiet
  /\ last' = [Call("moveShape", TRUE) EXCEPT !.id = id, !.pos = position]
  /\ IF ~Has(shapeState.entities, id)
     THEN UNCHANGED <<storeVars, timerVars>>
     ELSE /\ shapeState' = [shapeState EXCEPT !.entities[id].position =
                                Pos(MathRound(position.x), MathRound(position.y))]
          /\ UNCHANGED <<selectedShapeId, draftVars, viewVars, uiVars>>
          /\ Subscriber(TRUE)

moveShape(id, position) ==
  /\ phase # "boot"
  /\ Quiet
  /\ last' = [Call("moveShape", TRUE) EXCEPT !.id = id, !.pos = position]
  /\ IF ~Has(shapeState.entities, id)
     THEN UNCHANGED <<storeVars, timerVars>>
     ELSE /\ shapeState' = [shapeState EXCEPT !.entities[id].position = position]
          /\ UNCHANGED <<selectedShapeId, draftVars, viewVars, uiVars>>
          /\ Subscriber(TRUE)

\* moveShapeLayer placing the shape back where it was on 'forward'
moveShapeLayerOrder_forwardStays(ids, shapeId, direction) ==
  LET currentIndex == indexOf(ids, shapeId)
      newIds == spliceOut(ids, currentIndex)
  IN  CASE direction = "toFront" -> Append(newIds, shapeId)
        [] direction = "toBack" -> <<shapeId>> \o newIds
        [] direction = "backward" ->
             spliceIn(newIds, IF 0 > currentIndex - 1 THEN 0 ELSE currentIndex - 1, shapeId)
        [] OTHER -> spliceIn(newIds, currentIndex, shapeId)

\* moveShapeLayer pushing the shape to the end on 'toBack'
moveShapeLayerOrder_toBackAppends(ids, shapeId, direction) ==
  LET currentIndex == indexOf(ids, shapeId)
      newIds == spliceOut(ids, currentIndex)
  IN  CASE direction = "toFront" -> Append(newIds, shapeId)
        [] direction = "toBack" -> Append(newIds, shapeId)
        [] direction = "forward" ->
             spliceIn(newIds,
                      IF Len(ids) - 1 < currentIndex + 1 THEN Len(ids) - 1
                      ELSE currentIndex + 1,
                      shapeId)
        [] direction = "backward" ->
             spliceIn(newIds, IF 0 > currentIndex - 1 THEN 0 ELSE currentIndex - 1, shapeId)
        [] OTHER -> spliceIn(newIds, currentIndex, shapeId)

\* moveShapeLayer treating an unknown direction as 'toFront'
moveShapeLayerOrder_unknownToFront(ids, shapeId, direction) ==
  LET currentIndex == indexOf(ids, shapeId)
      newIds == spliceOut(ids, currentIndex)
  IN  CASE direction = "toBack" -> <<shapeId>> \o newIds
        [] direction = "forward" ->
             spliceIn(newIds,
                      IF Len(ids) - 1 < currentIndex + 1 THEN Len(ids) - 1
                      ELSE currentIndex + 1,
                      shapeId)
        [] direction = "backward" ->
             spliceIn(newIds, IF 0 > currentIndex - 1 THEN 0 ELSE currentIndex - 1, shapeId)
        [] OTHER -> Append(newIds, shapeId)

\* newIds of moveShapeLayer for an order ids that holds shapeId
moveShapeLayerOrder(ids, shapeId, direction) ==
  LET currentIndex == indexOf(ids, shapeId)
      newIds == spliceOut(ids, currentIndex)
  IN  CASE direction = "toFront" -> Append(newIds, shapeId)
        [] direction = "toBack" -> <<shapeId>> \o newIds
        [] direction = "forward" ->
             spliceIn(newIds,
                      IF Len(ids) - 1 < currentIndex + 1 THEN Len(ids) - 1
                      ELSE currentIndex + 1,
                      shapeId)
        [] direction = "backward" ->
             spliceIn(newIds, IF 0 > currentIndex - 1 THEN 0 ELSE currentIndex - 1, shapeId)
        [] OTHER -> spliceIn(newIds, currentIndex, shapeId)

moveShapeLayerIds(shapeId, direction) ==
  moveShapeLayerOrder(shapeState.ids, shapeId, direction)

moveShapeLayer(shapeId, direction) ==
  /\ phase # "boot"
  /\ Quiet
  /\ last' = [Call("moveShapeLayer", TRUE) EXCEPT !.id = shapeId, !.dir = direction]
  /\ IF indexOf(shapeState.ids, shapeId) = 0 - 1
     THEN UNCHANGED <<storeVars, timerVars>>
     ELSE /\ shapeState' = [shapeState EXCEPT !.ids = moveShapeLayerIds(shapeId, direction)]
          /\ UNCHANGED <<selectedShapeId, draftVars, viewVars, uiVars>>
          /\ Subscriber(TRUE)

\* reorderShapes exchanging the ids at the two indices
reorderShapesIds_swaps(fromIndex, toIndex) ==
  [i \in DOMAIN shapeState.ids |->
     IF i = fromIndex + 1 THEN shapeState.ids[toIndex + 1]
     ELSE IF i = toIndex + 1 THEN shapeState.ids[fromIndex + 1]
     ELSE shapeState.ids[i]]

reorderShapesIds(fromIndex, toIndex) ==
  spliceIn(spliceOut(shapeState.ids, fromIndex), toIndex, shapeState.ids[fromIndex + 1])

\* fromIndex and toIndex are indices of the order (the caller validates them)
reorderShapes(fromIndex, toIndex) ==
  /\ phase # "boot"
  /\ Quiet
  /\ fromIndex \in 0..(Len(shapeState.ids) - 1)
  /\ toIndex \in 0..(Len(shapeState.ids) - 1)
  /\ shapeState' = [shapeState EXCEPT !.ids = reorderShapesIds(fromIndex, toIndex)]
  /\ UNCHANGED <<selectedShapeId, draftVars, viewVars, uiVars>>
  /\ Subscriber(TRUE)
  /\ last' = [Call("reorderShapes", TRUE) EXCEPT !.i = fromIndex, !.j = toIndex]

(***************************************************************************)
(* Selection and the draft form.                                           *)
(***************************************************************************)
setSelectedShapeId(id) ==
  /\ phase # "boot"
  /\ Quiet
  /\ last' = [Call("setSelectedShapeId", TRUE) EXCEPT !.id = id]
  /\ IF ~Falsy(id) /\ Has(shapeState.entities, id)
     THEN LET shape == shapeState.entities[id]
          IN  /\ selectedShapeId' = id
              /\ formWidth' = shape.width
              /\ formHeight' = shape.height
              /\ formBaseColor' = shape.baseColor
              /\ formOpacity' = shape.opacity
              /\ currentShapeType' = shape.type
     ELSE /\ selectedShapeId' = Null
          /\ UNCHANGED draftVars
  /\ UNCHANGED <<shapeState, viewVars, uiVars>>
  /\ Subscriber(FALSE)

resetFormToDefaults ==
  /\ phase # "boot"
  /\ Quiet
  /\ FormDefaults
  /\ UNCHANGED <<shapeState, viewVars, uiVars>>
  /\ Subscriber(FALSE)
  /\ last' = Call("resetFormToDefaults", TRUE)

setCurrentShapeType(type) ==
  /\ phase # "boot"
  /\ Quiet
  /\ currentShapeType' = type
  /\ UNCHANGED <<shapeState, selectedShapeId, formWidth, formHeight, formBaseColor,
                 formOpacity, viewVars, uiVars>>
  /\ Subscriber(FALSE)
  /\ last' = Call("setCurrentShapeType", TRUE)

setFormWidth(width) ==
  /\ phase # "boot"
  /\ Quiet
  /\ formWidth' = width
  /\ UNCHANGED <<shapeState, selectedShapeId, currentShapeType, formHeight, formBaseColor,
                 formOpacity, viewVars, uiVars>>
  /\ Subscriber(FALSE)
  /\ last' = Call("setFormWidth", TRUE)

setFormHeight(height) ==
  /\ phase # "boot"
  /\ Quiet
  /\ formHeight' = height
  /\ UNCHANGED <<shapeState, selectedShapeId, currentShapeType, formWidth, formBaseColor,
                 formOpacity, viewVars, uiVars>>
  /\ Subscriber(FALSE)
  /\ last' = Call("setFormHeight", TRUE)

setFormBaseColor(color) ==
  /\ phase # "boot"
  /\ Quiet
  /\ formBaseColor' = color
  /\ UNCHANGED <<shapeState, selectedShapeId, currentShapeType, formWidth, formHeight,
                 formOpacity, viewVars, uiVars>>
  /\ Subscriber(FALSE)
  /\ last' = Call("setFormBaseColor", TRUE)

setFormOpacity(opacity) ==
  /\ phase # "boot"
  /\ Quiet
  /\ formOpacity' = opacity
  /\ UNCHANGED <<shapeState, selectedShapeId, currentShapeType, formWidth, formHeight,
                 formBaseColor, viewVars, uiVars>>
  /\ Subscriber(FALSE)
  /\ last' = Call("setFormOpacity", TRUE)

(***************************************************************************)
(* View actions.                                                           *)
(***************************************************************************)
Zooms == {NaN, Half, Num(20), Num(100)}
Offsets == {Pos(Num(5), Num(0 - 5))}
Viewports == {Pos(Num(300), Num(300)), Pos(Num(120), Num(0)), Pos(NaN, Num(300))}

setZoom(z) ==
  /\ phase # "boot"
  /\ Quiet
  /\ zoom' = clamp(z, Num(MIN_ZOOM), Num(MAX_ZOOM))
  /\ UNCHANGED <<shapeState, selectedShapeId, draftVars, canvasOffset, uiVars>>
  /\ Subscriber(StrictNeq(zoom', zoom))
  /\ last' = [Call("setZoom", TRUE) EXCEPT !.id = z]

\* the caller passes a new offset object
setCanvasOffset(offset) ==
  /\ phase # "boot"
  /\ Quiet
  /\ canvasOffset' = offset
  /\ UNCHANGED <<shapeState, selectedShapeId, draftVars, zoom, uiVars>>
  /\ Subscriber(TRUE)
  /\ last' = [Call("setCanvasOffset", TRUE) EXCEPT !.pos = offset]

updateView(z, offset) ==
  /\ phase # "boot"
  /\ Quiet
  /\ zoom' = clamp(z, Num(MIN_ZOOM), Num(MAX_ZOOM))
  /\ canvasOffset' = offset
  /\ UNCHANGED <<shapeState, selectedShapeId, draftVars, uiVars>>
  /\ Subscriber(TRUE)
  /\ last' = [Call("updateView", TRUE) EXCEPT !.id = z, !.pos = offset]

\* state.ids.map((id) => state.entities[id])
denormalizeShapes(state) == [i \in DOMAIN state.ids |-> state.entities[state.ids[i]]]

\* the loop of resetView over shapes[i..]: [minX, minY, maxX, maxY]
RECURSIVE boundingBox(_, _, _)
boundingBox(shapes, i, box) ==
  IF i > Len(shapes) THEN box
  ELSE boundingBox(shapes, i + 1,
         [minX |-> MathMin(box.minX, shapes[i].position.x),
          minY |-> MathMin(box.minY, shapes[i].position.y),
          maxX |-> MathMax(box.maxX, Add(shapes[i].position.x, shapes[i].width)),
          maxY |-> MathMax(box.maxY, Add(shapes[i].position.y, shapes[i].height))])

\* resetView leaving the view alone on an empty collection
resetViewResult_keepsViewWhenEmpty(viewportWidth, viewportHeight) ==
  LET shapes == denormalizeShapes(shapeState)
      box == boundingBox(shapes, 1,
               [minX |-> PosInf, minY |-> PosInf, maxX |-> NegInf, maxY |-> NegInf])
      worldW == Sub(box.maxX, box.minX)
      worldH == Sub(box.maxY, box.minY)
      availableW == MathMax(Num(1), Sub(viewportWidth, Num(2 * PADDING)))
      availableH == MathMax(Num(1), Sub(viewportHeight, Num(2 * PADDING)))
      zoomToFitW == Div(availableW, worldW)
      zoomToFitH == Div(availableH, worldH)
      newZoom == clamp(MathMin(zoomToFitW, zoomToFitH), Num(MIN_ZOOM), Num(MAX_ZOOM))
      worldCenterX == Div(Add(box.minX, box.maxX), Num(2))
      worldCenterY == Div(Add(box.minY, box.maxY), Num(2))
      viewportCenterX == Div(viewportWidth, Num(2))
      viewportCenterY == Div(viewportHeight, Num(2))
  IN  IF Len(shapes) > 0 /\ Gt(worldW, Num(0)) /\ Gt(worldH, Num(0))
      THEN [zoom |-> newZoom,
            canvasOffset |-> Pos(Sub(viewportCenterX, Mul(worldCenterX, newZoom)),
                                 Sub(viewportCenterY, Mul(worldCenterY, newZoom)))]
      ELSE IF Len(shapes) = 0 THEN [zoom |-> zoom, canvasOffset |-> canvasOffset]
      ELSE [zoom |-> Num(10), canvasOffset |-> Pos(Num(0), Num(0))]

\* resetView taking the padding off one side only
resetViewResult_paddingOnce(viewportWidth, viewportHeight) ==
  LET shapes == denormalizeShapes(shapeState)
      box == boundingBox(shapes, 1,
               [minX |-> PosInf, minY |-> PosInf, maxX |-> NegInf, maxY |-> NegInf])
      worldW == Sub(box.maxX, box.minX)
      worldH == Sub(box.maxY, box.minY)
      availableW == MathMax(Num(1), Sub(viewportWidth, Num(PADDING)))
      availableH == MathMax(Num(1), Sub(viewportHeight, Num(PADDING)))
      zoomToFitW == Div(availableW, worldW)
      zoomToFitH == Div(availableH, worldH)
      newZoom == clamp(MathMin(zoomToFitW, zoomToFitH), Num(MIN_ZOOM), Num(MAX_ZOOM))
      worldCenterX == Div(Add(box.minX, box.maxX), Num(2))
      worldCenterY == Div(Add(box.minY, box.maxY), Num(2))
      viewportCenterX == Div(viewportWidth, Num(2))
      viewportCenterY == Div(viewportHeight, Num(2))
  IN  IF Len(shapes) > 0 /\ Gt(worldW, Num(0)) /\ Gt(worldH, Num(0))
      THEN [zoom |-> newZoom,
            canvasOffset |-> Pos(Sub(viewportCenterX, Mul(worldCenterX, newZoom)),
                                 Sub(viewportCenterY, Mul(worldCenterY, newZoom)))]
      ELSE [zoom |-> Num(10), canvasOffset |-> Pos(Num(0), Num(0))]

\* the view resetView computes: [zoom, canvasOffset]
resetViewResult(viewportWidth, viewportHeight) ==
  LET shapes == denormalizeShapes(shapeState)
      box == boundingBox(shapes, 1,
               [minX |-> PosInf, minY |-> PosInf, maxX |-> NegInf, maxY |-> NegInf])
      worldW == Sub(box.maxX, box.minX)
      worldH == Sub(box.maxY, box.minY)
      availableW == MathMax(Num(1), Sub(viewportWidth, Num(2 * PADDING)))
      availableH == MathMax(Num(1), Sub(viewportHeight, Num(2 * PADDING)))
      zoomToFitW == Div(availableW, worldW)
      zoomToFitH == Div(availableH, worldH)
      newZoom == clamp(MathMin(zoomToFitW, zoomToFitH), Num(MIN_ZOOM), Num(MAX_ZOOM))
      worldCenterX == Div(Add(box.minX, box.maxX), Num(2))
      worldCenterY == Div(Add(box.minY, box.maxY), Num(2))
      viewportCenterX == Div(viewportWidth, Num(2))
      viewportCenterY == Div(viewportHeight, Num(2))
  IN  IF Len(shapes) > 0 /\ Gt(worldW, Num(0)) /\ Gt(worldH, Num(0))
      THEN [zoom |-> newZoom,
            canvasOffset |-> Pos(Sub(viewportCenterX, Mul(worldCenterX, newZoom)),
                                 Sub(viewportCenterY, Mul(worldCenterY, newZoom)))]
      ELSE [zoom |-> Num(10), canvasOffset |-> Pos(Num(0), Num(0))]

resetView(viewportWidth, viewportHeight) ==
  /\ phase # "boot"
  /\ Quiet
  /\ zoom' = resetViewResult(viewportWidth, viewportHeight).zoom
  /\ canvasOffset' = resetViewResult(viewportWidth, viewportHeight).canvasOffset
  /\ UNCHANGED <<shapeState, selectedShapeId, draftVars, uiVars>>
  /\ Subscriber(TRUE)
  /\ last' = [Call("resetView", TRUE) EXCEPT !.pos = Pos(viewportWidth, viewportHeight)]

(***************************************************************************)
(* UI actions.                                                             *)
(***************************************************************************)
setControlsPanelOpen(open) ==
  /\ phase # "boot"
  /\ Quiet
  /\ isControlsPanelOpen' = open
  /\ UNCHANGED <<shapeState, selectedShapeId, draftVars, viewVars, isShapeListOpen>>
  /\ Subscriber(isControlsPanelOpen' # isControlsPanelOpen)
  /\ last' = Call("setControlsPanelOpen", TRUE)

setShapeListOpen(open) ==
  /\ phase # "boot"
  /\ Quiet
  /\ isShapeListOpen' = open
  /\ UNCHANGED <<shapeState, selectedShapeId, draftVars, viewVars, isControlsPanelOpen>>
  /\ Subscriber(isShapeListOpen' # isShapeListOpen)
  /\ last' = Call("setShapeListOpen", TRUE)

toggleControlsPanel ==
  /\ phase # "boot"
  /\ Quiet
  /\ isControlsPanelOpen' = ~isControlsPanelOpen
  /\ UNCHANGED <<shapeState, selectedShapeId, draftVars, viewVars, isShapeListOpen>>
  /\ Subscriber(TRUE)
  /\ last' = Call("toggleControlsPanel", TRUE)

toggleShapeList ==
  /\ phase # "boot"
  /\ Quiet
  /\ isShapeListOpen' = ~isShapeListOpen
  /\ UNCHANGED <<shapeState, selectedShapeId, draftVars, viewVars, isControlsPanelOpen>>
  /\ Subscriber(TRUE)
  /\ last' = Call("toggleShapeList", TRUE)

(***************************************************************************)
(* Hydration.  data is a Partial<PersistedWorkspace>: the fields named in  *)
(* data.absent are undefined.                                              *)
(***************************************************************************)
\* the loop of normalizeShapes over shapes[i..]
RECURSIVE normalizeFrom(_, _, _)
normalizeFrom(shapes, i, acc) ==
  IF i > Len(shapes) THEN acc
  ELSE normalizeFrom(shapes, i + 1,
         [ids |-> Append(acc.ids, shapes[i].id),
          entities |-> Put(acc.entities, shapes[i].id, shapes[i])])

normalizeShapes(shapes) == normalizeFrom(shapes, 1, [ids |-> <<>>, entities |-> EmptyMap])

\* data.field ?? default
OrElse(data, field, default) == IF field \in data.absent THEN default ELSE data[field]

\* hydrate taking over the selection the data carries
hydrateState_restoresSelection(data) ==
  [shapeState |-> normalizeShapes(OrElse(data, "shapes", <<>>)),
   selectedShapeId |-> IF "selectedShapeId" \in DOMAIN data THEN data.selectedShapeId
                       ELSE Null,
   zoom |-> clamp(OrElse(data, "zoom", Num(10)), Num(MIN_ZOOM), Num(MAX_ZOOM)),
   canvasOffset |-> OrElse(data, "canvasOffset", Pos(Num(0), Num(0))),
   isControlsPanelOpen |-> OrElse(data, "isControlsPanelOpen", FALSE),
   isShapeListOpen |-> OrElse(data, "isShapeListOpen", FALSE)]

hydrateState(data) ==
  [shapeState |-> normalizeShapes(OrElse(data, "shapes", <<>>)),
   selectedShapeId |-> Null,
   zoom |-> clamp(OrElse(data, "zoom", Num(10)), Num(MIN_ZOOM), Num(MAX_ZOOM)),
   canvasOffset |-> OrElse(data, "canvasOffset", Pos(Num(0), Num(0))),
   isControlsPanelOpen |-> OrElse(data, "isControlsPanelOpen", FALSE),
   isShapeListOpen |-> OrElse(data, "isShapeListOpen", FALSE)]

\* hydrate restoring the collection but keeping the selection it finds
Hydrated_keepsSelection(data) ==
  /\ shapeState' = hydrateState(data).shapeState
  /\ selectedShapeId' = selectedShapeId
  /\ zoom' = hydrateState(data).zoom
  /\ canvasOffset' = hydrateState(data).canvasOffset
  /\ isControlsPanelOpen' = hydrateState(data).isControlsPanelOpen
  /\ isShapeListOpen' = hydrateState(data).isShapeListOpen
  /\ UNCHANGED draftVars

Hydrated(data) ==
  /\ shapeState' = hydrateState(data).shapeState
  /\ selectedShapeId' = hydrateState(data).selectedShapeId
  /\ zoom' = hydrateState(data).zoom
  /\ canvasOffset' = hydrateState(data).canvasOffset
  /\ isControlsPanelOpen' = hydrateState(data).isControlsPanelOpen
  /\ isShapeListOpen' = hydrateState(data).isShapeListOpen
  /\ UNCHANGED draftVars

hydrate(data) ==
  /\ phase # "boot"
  /\ Quiet
  /\ Hydrated(data)
  /\ Subscriber(TRUE)
  /\ last' = [Call("hydrate", TRUE) EXCEPT !.id = OrElse(data, "zoom", Null)]

(***************************************************************************)
(* JSON.  A parsed JSON value is [t, num, s, b] with t its typeof ("null"  *)
(* for null, "undefined" for a missing property); a stored shape or        *)
(* offset is a record of such values with its own t.                       *)
(***************************************************************************)
JNum(x) == [t |-> "number", num |-> x, s |-> "", b |-> FALSE]
JStr(x) == [t |-> "string", num |-> Null, s |-> x, b |-> FALSE]
JBool(x) == [t |-> "boolean", num |-> Null, s |-> "", b |-> x]
JNull == [t |-> "null", num |-> Null, s |-> "", b |-> FALSE]
JUndef == [t |-> "undefined", num |-> Null, s |-> "", b |-> FALSE]

\* JSON.stringify then JSON.parse of a number: NaN and the infinities become null
jsonNumber(x) == IF x.k = "fin" THEN JNum(x) ELSE JNull

jsonPoint(p) == [t |-> "object", x |-> jsonNumber(p.x), y |-> jsonNumber(p.y)]

jsonShape(shape) ==
  [t |-> "object",
   id |-> jsonNumber(shape.id),
   type |-> JStr(shape.type),
   width |-> jsonNumber(shape.width),
   height |-> jsonNumber(shape.height),
   baseColor |-> JStr(shape.baseColor),
   opacity |-> jsonNumber(shape.opacity),
   position |-> jsonPoint(shape.position)]

\* the ShapeData that a parsed element is, once isValidShape has accepted it
asShapeData(s) ==
  [id |-> s.id.num,
   type |-> s.type.s,
   width |-> s.width.num,
   height |-> s.height.num,
   baseColor |-> s.baseColor.s,
   opacity |-> s.opacity.num,
   position |-> Pos(s.position.x.num, s.position.y.num)]

NoItem(status) ==
  [status |-> status, root |-> "undefined", version |-> JUndef,
   shapes |-> [isArray |-> FALSE, elems |-> <<>>], zoom |-> JUndef,
   canvasOffset |-> [t |-> "undefined", x |-> JUndef, y |-> JUndef],
   isControlsPanelOpen |-> JUndef, isShapeListOpen |-> JUndef]

(***************************************************************************)
(* workspace-storage.ts                                                    *)
(***************************************************************************)
\* isValidShape without the upper bound on opacity
isValidShape_opacityUnbounded(shape) ==
  /\ shape.t = "object"
  /\ shape.id.t = "number"
  /\ shape.type.t = "string"
  /\ shape.type.s \in {"ellipse", "crescent", "box"}
  /\ shape.width.t = "number"
  /\ Gt(shape.width.num, Num(0))
  /\ shape.height.t = "number"
  /\ Gt(shape.height.num, Num(0))
  /\ shape.baseColor.t = "string"
  /\ shape.opacity.t = "number"
  /\ Ge(shape.opacity.num, Num(0))
  /\ shape.position.t = "object"
  /\ shape.position.x.t = "number"
  /\ shape.position.y.t = "number"

isValidShape(shape) ==
  /\ shape.t = "object"
  /\ shape.id.t = "number"
  /\ shape.type.t = "string"
  /\ shape.type.s \in {"ellipse", "crescent", "box"}
  /\ shape.width.t = "number"
  /\ Gt(shape.width.num, Num(0))
  /\ shape.height.t = "number"
  /\ Gt(shape.height.num, Num(0))
  /\ shape.baseColor.t = "string"
  /\ shape.opacity.t = "number"
  /\ Ge(shape.opacity.num, Num(0))
  /\ Le(shape.opacity.num, Num(1))
  /\ shape.position.t = "object"
  /\ shape.position.x.t = "number"
  /\ shape.position.y.t = "number"

NoData ==
  [absent |-> {}, version |-> 0, shapes |-> <<>>, zoom |-> Num(10),
   canvasOffset |-> Pos(Num(0), Num(0)),
   isControlsPanelOpen |-> FALSE, isShapeListOpen |-> FALSE]

\* loadWorkspace dropping the flags of a record whose offset is invalid
loadedData_flagsNeedOffset(parsed) ==
  [absent |-> {},
   version |-> VERSION,
   shapes |-> LET validShapes == SelectSeq(parsed.shapes.elems, isValidShape)
              IN  [i \in DOMAIN validShapes |-> asShapeData(validShapes[i])],
   zoom |-> IF parsed.zoom.t = "number"
            THEN clamp(parsed.zoom.num, Num(MIN_ZOOM), Num(MAX_ZOOM))
            ELSE Num(10),
   canvasOffset |->
     IF /\ parsed.canvasOffset.t = "object"
        /\ parsed.canvasOffset.x.t = "number"
        /\ parsed.canvasOffset.y.t = "number"
     THEN Pos(parsed.canvasOffset.x.num, parsed.canvasOffset.y.num)
     ELSE Pos(Num(0), Num(0)),
   isControlsPanelOpen |->
     IF parsed.isControlsPanelOpen.t = "boolean" /\ parsed.canvasOffset.t = "object"
     THEN parsed.isControlsPanelOpen.b ELSE FALSE,
   isShapeListOpen |->
     IF parsed.isShapeListOpen.t = "boolean" /\ parsed.canvasOffset.x.t = "number"
        /\ parsed.canvasOffset.y.t = "number"
     THEN parsed.isShapeListOpen.b ELSE FALSE]

loadedData(parsed) ==
  [absent |-> {},
   version |-> VERSION,
   shapes |-> LET validShapes == SelectSeq(parsed.shapes.elems, isValidShape)
              IN  [i \in DOMAIN validShapes |-> asShapeData(validShapes[i])],
   zoom |-> IF parsed.zoom.t = "number"
            THEN clamp(parsed.zoom.num, Num(MIN_ZOOM), Num(MAX_ZOOM))
            ELSE Num(10),
   canvasOffset |->
     IF /\ parsed.canvasOffset.t = "object"
        /\ parsed.canvasOffset.x.t = "number"
        /\ parsed.canvasOffset.y.t = "number"
     THEN Pos(parsed.canvasOffset.x.num, parsed.canvasOffset.y.num)
     ELSE Pos(Num(0), Num(0)),
   isControlsPanelOpen |->
     IF parsed.isControlsPanelOpen.t = "boolean" THEN parsed.isControlsPanelOpen.b ELSE FALSE,
   isShapeListOpen |->
     IF parsed.isShapeListOpen.t = "boolean" THEN parsed.isShapeListOpen.b ELSE FALSE]

\* loadWorkspace without the version test
loadWorkspace_anyVersion(stored) ==
  IF \/ stored.status # "json"
     \/ stored.root # "object"
     \/ ~stored.shapes.isArray
  THEN [isNull |-> TRUE, data |-> NoData]
  ELSE [isNull |-> FALSE, data |-> loadedData(stored)]

\* loadWorkspace rejecting the whole record when its zoom is not a number
loadWorkspace_rejectsBadZoom(stored) ==
  IF \/ stored.status # "json"
     \/ stored.root # "object"
     \/ stored.version # JNum(Num(VERSION))
     \/ ~stored.shapes.isArray
     \/ stored.zoom.t # "number"
  THEN [isNull |-> TRUE, data |-> NoData]
  ELSE [isNull |-> FALSE, data |-> loadedData(stored)]

\* loadWorkspace(): [isNull, data]; stored is the item, status "absent" when
\* getItem gives null or "", "corrupt" when JSON.parse throws
loadWorkspace(stored) ==
  IF \/ stored.status # "json"
     \/ stored.root # "object"
     \/ stored.version # JNum(Num(VERSION))
     \/ ~stored.shapes.isArray
  THEN [isNull |-> TRUE, data |-> NoData]
  ELSE [isNull |-> FALSE, data |-> loadedData(stored)]

\* getPersistedWorkspace returning what was loaded at startup
getPersistedWorkspace_atStartup == persisted.data

getPersistedWorkspace ==
  [absent |-> {},
   version |-> 1,
   shapes |-> denormalizeShapes(shapeState),
   zoom |-> zoom,
   canvasOffset |-> canvasOffset,
   isControlsPanelOpen |-> isControlsPanelOpen,
   isShapeListOpen |-> isShapeListOpen]

\* saveWorkspace writing the default UI flags instead of the state's
savedItem_defaultFlags(state) ==
  [status |-> "json",
   root |-> "object",
   version |-> JNum(Num(VERSION)),
   shapes |-> [isArray |-> TRUE,
               elems |-> [i \in DOMAIN state.shapes |-> jsonShape(state.shapes[i])]],
   zoom |-> jsonNumber(clamp(state.zoom, Num(MIN_ZOOM), Num(MAX_ZOOM))),
   canvasOffset |-> jsonPoint(state.canvasOffset),
   isControlsPanelOpen |-> JBool(DEFAULT_STATE.isControlsPanelOpen),
   isShapeListOpen |-> JBool(DEFAULT_STATE.isShapeListOpen)]

\* the item saveWorkspace(state) sets: JSON.stringify(payload)
savedItem(state) ==
  [status |-> "json",
   root |-> "object",
   version |-> JNum(Num(VERSION)),
   shapes |-> [isArray |-> TRUE,
               elems |-> [i \in DOMAIN state.shapes |-> jsonShape(state.shapes[i])]],
   zoom |-> jsonNumber(clamp(state.zoom, Num(MIN_ZOOM), Num(MAX_ZOOM))),
   canvasOffset |-> jsonPoint(state.canvasOffset),
   isControlsPanelOpen |-> JBool(state.isControlsPanelOpen),
   isShapeListOpen |-> JBool(state.isShapeListOpen)]

\* initWorkspacePersistence subscribing before it hydrates
initWorkspacePersistence_subscribesFirst ==
  /\ phase = "boot"
  /\ persisted' = loadWorkspace(storage)
  /\ IF persisted'.isNull
     THEN /\ UNCHANGED storeVars
          /\ debounceTimer' = "null"
          /\ UNCHANGED <<timer, lastMutation, burstWrites>>
     ELSE /\ Hydrated(persisted'.data)
          /\ debounceTimer' = "handle"
          /\ timer' = [pending |-> TRUE, due |-> now + DEBOUNCE_MS]
          /\ lastMutation' = now
          /\ burstWrites' = 0
  /\ subscribed' = TRUE
  /\ phase' = "running"
  /\ UNCHANGED <<now, storage>>
  /\ last' = Call("initWorkspacePersistence", ~persisted'.isNull)

\* initWorkspacePersistence(): load, hydrate if something was loaded, then subscribe
initWorkspacePersistence ==
  /\ phase = "boot"
  /\ persisted' = loadWorkspace(storage)
  /\ IF persisted'.isNull THEN UNCHANGED storeVars ELSE Hydrated(persisted'.data)
  /\ debounceTimer' = "null"
  /\ subscribed' = TRUE
  /\ phase' = "running"
  /\ UNCHANGED <<now, storage, timer, lastMutation, burstWrites>>
  /\ last' = Call("initWorkspacePersistence", ~persisted'.isNull)

\* the timer callback dropping the subscription when the write fails
TimerFires_failureUnsubscribes(written) ==
  /\ timer.pending
  /\ now >= timer.due
  /\ timer' = [timer EXCEPT !.pending = FALSE]
  /\ storage' = IF written THEN savedItem(getPersistedWorkspace) ELSE storage
  /\ burstWrites' = burstWrites + 1
  /\ subscribed' = (subscribed /\ written)
  /\ UNCHANGED <<storeVars, now, persisted, phase, debounceTimer, lastMutation>>
  /\ last' = Call("saveWorkspace", written)

\* the timer callback: saveWorkspace(getPersistedWorkspace()); setItem may throw
\* (quota, storage disabled), which saveWorkspace catches
TimerFires(written) ==
  /\ timer.pending
  /\ now >= timer.due
  /\ timer' = [timer EXCEPT !.pending = FALSE]
  /\ storage' = IF written THEN savedItem(getPersistedWorkspace) ELSE storage
  /\ burstWrites' = burstWrites + 1
  /\ UNCHANGED <<storeVars, now, persisted, phase, subscribed, debounceTimer, lastMutation>>
  /\ last' = Call("saveWorkspace", written)

\* cleanup unsubscribing without clearing the timer
cleanup_keepsTimer ==
  /\ phase = "running"
  /\ subscribed' = FALSE
  /\ phase' = "torn"
  /\ UNCHANGED <<storeVars, now, storage, persisted, debounceTimer, timer, lastMutation,
                 burstWrites>>
  /\ last' = Call("cleanup", TRUE)

\* the cleanup function initWorkspacePersistence returns
cleanup ==
  /\ phase = "running"
  /\ timer' = IF debounceTimer # "null" THEN [timer EXCEPT !.pending = FALSE] ELSE timer
  /\ subscribed' = FALSE
  /\ phase' = "torn"
  /\ UNCHANGED <<storeVars, now, storage, persisted, debounceTimer, lastMutation,
                 burstWrites>>
  /\ last' = Call("cleanup", TRUE)

(***************************************************************************)
(* The clock.                                                              *)
(***************************************************************************)
Tick ==
  /\ now < 1 + MaxMs
  /\ now' = now + 1
  /\ UNCHANGED <<storeVars, persistVars>>
  /\ last' = Call("tick", TRUE)

\* half a debounce window passes
Quantum == DEBOUNCE_MS \div 2
TickQuantum ==
  /\ now + Quantum <= 1 + MaxQuanta * Quantum
  /\ now' = now + Quantum
  /\ UNCHANGED <<storeVars, persistVars>>
  /\ last' = Call("tick", TRUE)

(***************************************************************************)
(* The store on its own: every shape, selection and draft operation from   *)
(* the empty store, with no persistence attached.                          *)
(***************************************************************************)
InitStore ==
  /\ shapeState = DEFAULT_STATE.shapeState
  /\ selectedShapeId = DEFAULT_STATE.selectedShapeId
  /\ currentShapeType = DEFAULT_STATE.currentShapeType
  /\ formWidth = DEFAULT_STATE.formWidth
  /\ formHeight = DEFAULT_STATE.formHeight
  /\ formBaseColor = DEFAULT_STATE.formBaseColor
  /\ formOpacity = DEFAULT_STATE.formOpacity
  /\ zoom = DEFAULT_STATE.zoom
  /\ canvasOffset = DEFAULT_STATE.canvasOffset
  /\ isControlsPanelOpen = DEFAULT_STATE.isControlsPanelOpen
  /\ isShapeListOpen = DEFAULT_STATE.isShapeListOpen
  /\ now = 1
  /\ debounceTimer = "null"
  /\ timer = [pending |-> FALSE, due |-> 0]
  /\ lastMutation = 0 - 1
  /\ burstWrites = 0
  /\ last = Call("init", TRUE)

\* the store used on its own: initWorkspacePersistence is never called
InitShapes ==
  /\ InitStore
  /\ storage = NoItem("absent")
  /\ persisted = [isNull |-> TRUE, data |-> NoData]
  /\ phase = "detached"
  /\ subscribed = FALSE

NextShapes ==
  \/ \E p \in AddPositions : addShape(p)
  \/ updateSelectedShape
  \/ \E id \in CallerIds : removeShape(id)
  \/ \E id \in CallerIds, p \in MovePositions : moveShape(id, p)
  \/ \E id \in CallerIds, dir \in Directions : moveShapeLayer(id, dir)
  \/ \E i, j \in 0..(MaxShapes - 1) : reorderShapes(i, j)
  \/ \E id \in CallerIds \cup {Null} : setSelectedShapeId(id)
  \/ \E w \in Widths : setFormWidth(w)
  \/ \E h \in Heights : setFormHeight(h)
  \/ Tick

SpecShapes == InitShapes /\ [][NextShapes]_vars

(***************************************************************************)
(* The draft form and the operations that read it.                         *)
(***************************************************************************)
NextDraft ==
  \/ \E p \in AddPositions : addShape(p)
  \/ updateSelectedShape
  \/ \E id \in CallerIds : removeShape(id)
  \/ \E id \in CallerIds \cup {Null} : setSelectedShapeId(id)
  \/ \E w \in Widths : setFormWidth(w)
  \/ \E h \in Heights : setFormHeight(h)
  \/ Tick

SpecDraft == InitShapes /\ [][NextDraft]_vars

(***************************************************************************)
(* Stored items: what localStorage can hold when the page starts.          *)
(***************************************************************************)
RawA ==
  [t |-> "object", id |-> JNum(Num(7)), type |-> JStr("ellipse"),
   width |-> JNum(Num(3)), height |-> JNum(Num(2)), baseColor |-> JStr("#FF0000"),
   opacity |-> JNum(Half), position |-> jsonPoint(Pos(Num(1), Num(0 - 1)))]
RawB ==
  [t |-> "object", id |-> JNum(Num(0)), type |-> JStr("box"),
   width |-> JNum(Num(10)), height |-> JNum(Num(10)), baseColor |-> JStr("#007BFF"),
   opacity |-> JNum(Num(1)), position |-> jsonPoint(Pos(Num(0), Num(0)))]
RawShapes ==
  {RawA, RawB,
   [RawA EXCEPT !.width = JNum(Num(0 - 3))],
   [RawA EXCEPT !.opacity = JNum(Num(2))],
   [RawB EXCEPT !.type = JStr("triangle")],
   [RawB EXCEPT !.position = [t |-> "object", x |-> JNum(Num(0)), y |-> JNull]],
   [RawB EXCEPT !.t = "null"]}

RawLists == UNION {[1..n -> RawShapes] : n \in 0..MaxStored}

RawScalars ==
  {[zoom |-> JNum(Num(5)), canvasOffset |-> jsonPoint(Pos(Num(4), Num(0 - 2))),
    isControlsPanelOpen |-> JBool(TRUE), isShapeListOpen |-> JBool(FALSE)],
   [zoom |-> JNum(Num(100)), canvasOffset |-> [t |-> "object", x |-> JNum(Num(4)), y |-> JStr("2")],
    isControlsPanelOpen |-> JNum(Num(1)), isShapeListOpen |-> JBool(TRUE)],
   [zoom |-> JStr("5"), canvasOffset |-> [t |-> "null", x |-> JUndef, y |-> JUndef],
    isControlsPanelOpen |-> JBool(TRUE), isShapeListOpen |-> JUndef],
   [zoom |-> JNull, canvasOffset |-> jsonPoint(Pos(Num(0 - 3), Num(8))),
    isControlsPanelOpen |-> JBool(FALSE), isShapeListOpen |-> JStr("true")]}

RawVersions == {JNum(Num(VERSION)), JNum(Num(VERSION + 1)), JStr("1"), JUndef}

RawRecord(version, shapes, scalars) ==
  [status |-> "json", root |-> "object", version |-> version, shapes |-> shapes,
   zoom |-> scalars.zoom, canvasOffset |-> scalars.canvasOffset,
   isControlsPanelOpen |-> scalars.isControlsPanelOpen,
   isShapeListOpen |-> scalars.isShapeListOpen]

StoredItems ==
  {NoItem("absent"), NoItem("corrupt"), [NoItem("json") EXCEPT !.root = "null"]}
  \cup {RawRecord(v, [isArray |-> TRUE, elems |-> l], sc) :
          v \in RawVersions, l \in RawLists, sc \in RawScalars}
  \cup {RawRecord(v, [isArray |-> FALSE, elems |-> <<>>], sc) :
          v \in RawVersions, sc \in RawScalars}

InitBoot ==
  /\ InitStore
  /\ persisted = [isNull |-> TRUE, data |-> NoData]
  /\ phase = "boot"
  /\ subscribed = FALSE

(***************************************************************************)
(* Startup: initWorkspacePersistence on every stored item.                 *)
(***************************************************************************)
InitLoad == InitBoot /\ storage \in StoredItems
NextLoad == initWorkspacePersistence
SpecLoad == InitLoad /\ [][NextLoad]_vars

(***************************************************************************)
(* The persistence pipeline: store updates, the debounce timer, teardown.  *)
(***************************************************************************)
InitPersist ==
  /\ InitBoot
  /\ storage \in {NoItem("absent"),
                  RawRecord(JNum(Num(VERSION)), [isArray |-> TRUE, elems |-> <<RawA>>],
                            CHOOSE sc \in RawScalars : sc.zoom = JNum(Num(5)))}

NextPersist ==
  \/ initWorkspacePersistence
  \/ addShape(Pos(Half, Half))
  \/ setZoom(Num(20))
  \/ toggleShapeList
  \/ \E written \in BOOLEAN : TimerFires(written)
  \/ cleanup
  \/ TickQuantum

SpecPersist == InitPersist /\ [][NextPersist]_vars

(***************************************************************************)
(* The subscriber under every kind of store update: updates of the shapes, *)
(* the view and the flags, updates of the selection and the draft alone,   *)
(* and updates that build new objects with the old contents.               *)
(***************************************************************************)
DebounceIds == {Num(7), Num(99)}

NextDebounce ==
  \/ initWorkspacePersistence
  \/ \E id \in DebounceIds : removeShape(id)
  \/ \E id \in DebounceIds : setSelectedShapeId(id)
  \/ setFormWidth(Num(4))
  \/ setZoom(Num(20))
  \/ \E o \in Offsets : setCanvasOffset(o)
  \/ toggleShapeList
  \/ TimerFires(TRUE)
  \/ TickQuantum

SpecDebounce == InitPersist /\ [][NextDebounce]_vars

(***************************************************************************)
(* The pipeline left running: no teardown, every write succeeds.  The      *)
(* browser runs a timer callback once its delay has passed and time does   *)
(* not stop, hence the weak fairness of TimerFires and TickQuantum.  The   *)
(* watched updates stop a debounce window before the end of the modelled   *)
(* time, so that the last timer can still come due.                        *)
(***************************************************************************)
MutationsGoOn == now + DEBOUNCE_MS <= 1 + MaxQuanta * Quantum

NextLive ==
  \/ initWorkspacePersistence
  \/ MutationsGoOn /\ addShape(Pos(Half, Half))
  \/ MutationsGoOn /\ setZoom(Num(20))
  \/ MutationsGoOn /\ toggleShapeList
  \/ setSelectedShapeId(Num(7))
  \/ TimerFires(TRUE)
  \/ TickQuantum

SpecLive ==
  /\ InitPersist
  /\ [][NextLive]_vars
  /\ WF_vars(TickQuantum)
  /\ WF_vars(TimerFires(TRUE))

(***************************************************************************)
(* The view: zoom and offset under every view operation and hydrate.       *)
(***************************************************************************)
HydrateData ==
  {[NoData EXCEPT !.zoom = z, !.absent = a] :
     z \in Zooms, a \in {{}, {"zoom", "shapes", "canvasOffset"}}}
  \cup {[NoData EXCEPT !.shapes = <<asShapeData(RawA)>>],
        [NoData EXCEPT !.shapes = <<[asShapeData(RawA) EXCEPT !.width = Num(0)]>>]}

NextView ==
  \/ \E z \in Zooms : setZoom(z)
  \/ \E z \in Zooms, o \in Offsets : updateView(z, o)
  \/ \E v \in Viewports : resetView(v.x, v.y)
  \/ \E data \in HydrateData : hydrate(data)
  \/ \E o \in Offsets : setCanvasOffset(o)
  \/ \E p \in AddPositions : addShape(p)
  \/ \E id \in CallerIds, p \in MovePositions : moveShape(id, p)

SpecView == InitShapes /\ [][NextView]_vars

(***************************************************************************)
(* Editing: a stored workspace is loaded, then shapes are selected,        *)
(* edited through the draft, moved and removed.                            *)
(***************************************************************************)
\* useWorkspaceStore.setState({ selectedShapeId: id }): the setter of the
\* exported store, open to every module that imports it
setStateSelectedShapeId(id) ==
  /\ phase # "boot"
  /\ Quiet
  /\ selectedShapeId' = id
  /\ UNCHANGED <<shapeState, draftVars, viewVars, uiVars>>
  /\ Subscriber(FALSE)
  /\ last' = [Call("setState", TRUE) EXCEPT !.id = id]

\* ids of the stored shapes (0 and 7), an id Date.now() gives, an id no shape has
EditIds == {Num(0), Num(1), Num(5), Num(7)}
StaleIds == {Num(5)}

EditRecord(elems) ==
  RawRecord(JNum(Num(VERSION)), [isArray |-> TRUE, elems |-> elems],
            CHOOSE sc \in RawScalars : sc.zoom = JNum(Num(5)))

InitEdit ==
  /\ InitBoot
  /\ storage \in {NoItem("absent"), EditRecord(<<RawA>>), EditRecord(<<RawB, RawA>>)}

NextEdit ==
  \/ initWorkspacePersistence
  \/ addShape(Pos(Num(0), Num(0)))
  \/ updateSelectedShape
  \/ \E id \in EditIds : removeShape(id)
  \/ \E id \in EditIds \cup {Null} : setSelectedShapeId(id)
  \/ \E id \in StaleIds : setStateSelectedShapeId(id)
  \/ setCurrentShapeType("box")
  \/ \E w \in Widths : setFormWidth(w)
  \/ \E h \in Heights : setFormHeight(h)

SpecEdit == InitEdit /\ [][NextEdit]_vars

(***************************************************************************)
(* Layering: the order of up to MaxLayers shapes under moveShapeLayer and  *)
(* reorderShapes, and their positions under moveShape.                     *)
(***************************************************************************)
LayerIds == 1..MaxLayers

\* stored workspaces of n shapes with the ids 1..n
LayerData ==
  {[NoData EXCEPT !.shapes = [i \in 1..n |-> [asShapeData(RawA) EXCEPT !.id = Num(i)]]] :
     n \in 0..MaxLayers}

NextLayer ==
  \/ \E data \in LayerData : hydrate(data)
  \/ \E id \in {Num(i) : i \in LayerIds}, dir \in Directions : moveShapeLayer(id, dir)
  \/ \E i, j \in 0..(MaxLayers - 1) : reorderShapes(i, j)
  \/ \E id \in {Num(i) : i \in 0..MaxLayers}, p \in MovePositions : moveShape(id, p)
  \/ setSelectedShapeId(Num(1))

SpecLayer == InitShapes /\ [][NextLayer]_vars

(***************************************************************************)
(* Selection: the store's own operations that set, move or clear the       *)
(* selection, and hydrate replacing the collection under it.               *)
(***************************************************************************)
SelectData ==
  {[NoData EXCEPT !.shapes = <<>>],
   [NoData EXCEPT !.shapes = <<asShapeData(RawB)>>],
   [NoData EXCEPT !.absent = {"shapes", "zoom"}]}

NextSelect ==
  \/ initWorkspacePersistence
  \/ addShape(Pos(Num(0), Num(0)))
  \/ updateSelectedShape
  \/ \E id \in EditIds : removeShape(id)
  \/ \E id \in EditIds \cup {Null} : setSelectedShapeId(id)
  \/ \E data \in SelectData : hydrate(data)
  \/ \E w \in Widths : setFormWidth(w)

SpecSelect == InitEdit /\ [][NextSelect]_vars

(***************************************************************************)
(* Hydration from the loader that also computes a selection: the stored    *)
(* selectedShapeId if a valid shape has it, else the first valid shape.    *)
(***************************************************************************)
loadedSelectedShapeId(stored, validShapes) ==
  IF stored.t = "number"
  THEN IF \E i \in DOMAIN validShapes : ~StrictNeq(validShapes[i].id, stored.num)
       THEN stored.num
       ELSE IF Len(validShapes) > 0 THEN validShapes[1].id ELSE Null
  ELSE IF Len(validShapes) > 0 THEN validShapes[1].id ELSE Null

\* what that loader returns for the shapes elems and the stored selection
loadedWithSelection(elems, stored) ==
  LET data == loadedData(EditRecord(elems))
  IN  [absent |-> data.absent,
       version |-> data.version,
       shapes |-> data.shapes,
       zoom |-> data.zoom,
       canvasOffset |-> data.canvasOffset,
       isControlsPanelOpen |-> data.isControlsPanelOpen,
       isShapeListOpen |-> data.isShapeListOpen,
       selectedShapeId |-> loadedSelectedShapeId(stored, data.shapes)]

StoredSelections == {JUndef, JNum(Num(7)), JNum(Num(99))}

SelectionData ==
  {loadedWithSelection(elems, stored) :
     elems \in {<<>>, <<RawA>>, <<RawB, RawA>>, <<[RawA EXCEPT !.width = JNum(Num(0))], RawB>>},
     stored \in StoredSelections}

NextHydrate ==
  \/ initWorkspacePersistence
  \/ addShape(Pos(Num(0), Num(0)))
  \/ \E id \in {Num(0), Num(7)} : setSelectedShapeId(id)
  \/ \E data \in SelectionData : hydrate(data)

SpecHydrate == InitEdit /\ [][NextHydrate]_vars

(***************************************************************************)
(* Reload: the states the store reaches through its operations, each of    *)
(* them saved and loaded back.                                             *)
(***************************************************************************)
\* opacities setFormOpacity is given: it takes any number
ReloadOpacities == {Half, Num(2)}

NextReload ==
  \/ \E p \in AddPositions : addShape(p)
  \/ \E o \in ReloadOpacities : setFormOpacity(o)
  \/ \E id \in CallerIds : removeShape(id)
  \/ setZoom(Num(20))
  \/ \E o \in Offsets : setCanvasOffset(o)
  \/ toggleShapeList
  \/ toggleControlsPanel
  \/ Tick

SpecReload == InitShapes /\ [][NextReload]_vars

(***************************************************************************)
(* Submitting the form: the validation of useShapeManagement and the       *)
(* submit handler of the store-based PixelShapeGenerator.                  *)
(***************************************************************************)
\* validateDimensions() of the hook: the list of error messages
validateDimensions(width, height) ==
  (IF width = Null \/ Le(width, Num(0))
   THEN <<"Width must be a positive number">> ELSE <<>>)
  \o (IF height = Null \/ Le(height, Num(0))
      THEN <<"Height must be a positive number">> ELSE <<>>)

selectIsEditing == selectedShapeId # Null

\* handleFormSubmit() of the component: update when editing, else add
handleFormSubmit(position) ==
  IF selectIsEditing THEN updateSelectedShape ELSE addShape(position)

\* the alerts handleFormSubmit has raised, once its store call has returned
handleFormSubmitAlerts ==
  IF last.ret THEN <<>>
  ELSE IF last.op = "updateSelectedShape"
  THEN <<"Cannot update shape: Width and height must be positive numbers">>
  ELSE <<"Cannot add shape: Width and height must be positive numbers">>

NextSubmit ==
  \/ \E p \in AddPositions : handleFormSubmit(p)
  \/ \E id \in CallerIds \cup {Null} : setSelectedShapeId(id)
  \/ \E w \in Widths : setFormWidth(w)
  \/ \E h \in Heights : setFormHeight(h)
  \/ Tick

SpecSubmit == InitShapes /\ [][NextSubmit]_vars

(***************************************************************************)
(* Properties.                                                             *)
(***************************************************************************)
NoDuplicates(s) == \A i, j \in DOMAIN s : i # j => s[i] # s[j]

\* C1: in every reachable state of the store, shapeState.ids holds each id
\* exactly once and its set of ids is the key set of shapeState.entities.
C1_OrderMatchesEntities ==
  /\ NoDuplicates(shapeState.ids)
  /\ Range(shapeState.ids) = DOMAIN shapeState.entities

\* C2: a successful addShape gives the new shape an id that no shape of the
\* collection already has.
C2_AddShapeIdIsFresh ==
  [][(last'.op = "addShape" /\ last'.ret)
       => /\ last'.id \notin Range(shapeState.ids)
          /\ last'.id \notin DOMAIN shapeState.entities]_vars

\* C3: in every reachable state MIN_ZOOM <= zoom <= MAX_ZOOM.
C3_ZoomWithinBounds ==
  /\ Le(Num(MIN_ZOOM), zoom)
  /\ Le(zoom, Num(MAX_ZOOM))

\* C4: while persistence runs, the writes since the current burst began are
\* none as long as the debounce timer is pending and exactly one once it has
\* fired, and every write comes at least DEBOUNCE_MS after the last
\* qualifying store update.
C4_OneWritePerBurst ==
  /\ (phase = "running" /\ lastMutation >= 0)
       => burstWrites = (IF timer.pending THEN 0 ELSE 1)
  /\ last.op = "saveWorkspace" => now >= lastMutation + DEBOUNCE_MS

C4_Witness ==
  /\ last.op = "saveWorkspace"
  /\ shapeState.ids = <<Num(1), Num(1 + Quantum)>>
  /\ lastMutation = 1 + Quantum
  /\ burstWrites = 1
  /\ now = lastMutation + DEBOUNCE_MS

\* the stored form of the store's current shapes (in order), zoom, offset and flags
CurrentSnapshot ==
  [status |-> "json", root |-> "object", version |-> JNum(Num(1)),
   shapes |-> [isArray |-> TRUE,
               elems |-> [i \in 1..Len(shapeState.ids) |->
                            jsonShape(shapeState.entities[shapeState.ids[i]])]],
   zoom |-> jsonNumber(zoom),
   canvasOffset |-> [t |-> "object", x |-> jsonNumber(canvasOffset.x),
                     y |-> jsonNumber(canvasOffset.y)],
   isControlsPanelOpen |-> JBool(isControlsPanelOpen),
   isShapeListOpen |-> JBool(isShapeListOpen)]

\* C5: a write made by the debounce timer stores the snapshot of the store as
\* it is when the timer fires.
C5_WriteIsCurrentSnapshot ==
  (last.op = "saveWorkspace" /\ last.ret) => storage = CurrentSnapshot

C5_Witness ==
  /\ last.op = "saveWorkspace"
  /\ last.ret
  /\ shapeState.ids = <<Num(1), Num(1 + Quantum)>>
  /\ isShapeListOpen
  /\ Len(storage.shapes.elems) = 2
  /\ storage.isShapeListOpen = JBool(TRUE)

\* the ShapeEntity schema: numeric id, kind of the enumeration, positive width
\* and height, string colour, opacity in [0, 1], numeric position
IsNumber(j) == j.t = "number"
Positive(j) == IsNumber(j) /\ j.num.k \in {"fin", "inf"} /\ Sign(j.num) = 1
SchemaOk(e) ==
  /\ e.t = "object"
  /\ IsNumber(e.id)
  /\ e.type.t = "string" /\ e.type.s \in ShapeTypes
  /\ Positive(e.width)
  /\ Positive(e.height)
  /\ e.baseColor.t = "string"
  /\ IsNumber(e.opacity) /\ e.opacity.num.k = "fin"
  /\ e.opacity.num.n >= 0 /\ e.opacity.num.n <= e.opacity.num.d
  /\ e.position.t = "object" /\ IsNumber(e.position.x) /\ IsNumber(e.position.y)

CurrentVersion(item) ==
  item.status = "json" /\ item.root = "object" /\ item.version = JNum(Num(VERSION))

\* C6: for a stored record of the current version whose shapes field is an
\* array, loadWorkspace returns exactly the elements that satisfy the schema,
\* in their stored order.
C6_LoadKeepsValidShapes ==
  (last.op = "initWorkspacePersistence" /\ CurrentVersion(storage) /\ storage.shapes.isArray)
    => /\ ~persisted.isNull
       /\ LET kept == SelectSeq(storage.shapes.elems, SchemaOk)
          IN  persisted.data.shapes = [i \in DOMAIN kept |-> asShapeData(kept[i])]

C6_Witness ==
  /\ last.op = "initWorkspacePersistence"
  /\ CurrentVersion(storage)
  /\ storage.shapes.elems = <<RawA, [RawA EXCEPT !.width = JNum(Num(0 - 3))], RawB>>
  /\ persisted.data.shapes = <<asShapeData(RawA), asShapeData(RawB)>>

\* C7: when the stored record is absent, unparsable or of another version,
\* loadWorkspace returns null and initWorkspacePersistence leaves the store in
\* its default state.
C7_NoRecordLeavesDefaults ==
  (last.op = "initWorkspacePersistence"
     /\ (storage.status \in {"absent", "corrupt"} \/ storage.version # JNum(Num(VERSION))))
    => /\ persisted.isNull
       /\ State = DEFAULT_STATE

C7_Witness ==
  /\ last.op = "initWorkspacePersistence"
  /\ storage.status = "json"
  /\ storage.version = JNum(Num(VERSION + 1))
  /\ storage.shapes.isArray
  /\ Len(storage.shapes.elems) > 0
  /\ storage.shapes.elems[1] = RawA
  /\ storage.zoom = JNum(Num(5))
  /\ phase = "running"

\* C8 as stated: a stored record that parses to an object of the current
\* version is always accepted by loadWorkspace.
C8_CurrentVersionAccepted ==
  (last.op = "initWorkspacePersistence" /\ CurrentVersion(storage)) => ~persisted.isNull

\* C8 amended: loadWorkspace accepts a record exactly when it parses to an
\* object of the current version whose shapes field is an array, and then
\* replaces every invalid scalar field by its default.
C8_AcceptedIffShapesIsArray ==
  last.op = "initWorkspacePersistence"
    => /\ ~persisted.isNull <=> (CurrentVersion(storage) /\ storage.shapes.isArray)
       /\ ~persisted.isNull
            => /\ ~IsNumber(storage.zoom) => persisted.data.zoom = Num(10)
               /\ ~(/\ storage.canvasOffset.t = "object"
                    /\ IsNumber(storage.canvasOffset.x)
                    /\ IsNumber(storage.canvasOffset.y))
                    => persisted.data.canvasOffset = Pos(Num(0), Num(0))
               /\ storage.isControlsPanelOpen.t # "boolean"
                    => ~persisted.data.isControlsPanelOpen
               /\ storage.isShapeListOpen.t # "boolean"
                    => ~persisted.data.isShapeListOpen

C8_Witness ==
  /\ last.op = "initWorkspacePersistence"
  /\ ~persisted.isNull
  /\ storage.zoom.t = "string"
  /\ storage.canvasOffset.t = "null"
  /\ storage.isShapeListOpen.t = "undefined"
  /\ Len(persisted.data.shapes) > 0
  /\ persisted.data.zoom = Num(10)

\* the draft's width or height is null or <= 0
DraftRejected ==
  \/ formWidth.k = "null"
  \/ formWidth.k = "ninf"
  \/ (formWidth.k = "fin" /\ formWidth.n <= 0)
  \/ formHeight.k = "null"
  \/ formHeight.k = "ninf"
  \/ (formHeight.k = "fin" /\ formHeight.n <= 0)

\* C9: addShape called while the draft's width or height is null or <= 0
\* returns false and leaves the whole store state as it was.
C9_RejectedAddChangesNothing ==
  [][(last'.op = "addShape" /\ DraftRejected) => (~last'.ret /\ State' = State)]_vars

C9_Witness ==
  /\ last.op = "addShape"
  /\ ~last.ret
  /\ formHeight = Num(0)
  /\ formWidth = Num(4)
  /\ selectedShapeId # Null
  /\ Len(shapeState.ids) > 0

\* r is x rounded to the nearest integer
IsNearestInteger(r, x) ==
  /\ r.k = "fin" /\ r.d = 1
  /\ Le(Sub(x, r), Half)
  /\ Le(Sub(r, x), Half)

\* C10: a successful addShape(position) returns true, appends the new id to
\* the order, leaves the existing shapes as they were, and stores an entity
\* with the draft's values at the position rounded to the nearest integers.
C10_AddAppendsDraft ==
  [][(last'.op = "addShape" /\ ~DraftRejected)
       => /\ last'.ret
          /\ shapeState'.ids = Append(shapeState.ids, last'.id)
          /\ \A id \in DOMAIN shapeState.entities :
               /\ id \in DOMAIN shapeState'.entities
               /\ shapeState'.entities[id] = shapeState.entities[id]
          /\ LET e == shapeState'.entities[last'.id]
             IN  /\ e.type = currentShapeType
                 /\ e.width = formWidth
                 /\ e.height = formHeight
                 /\ e.baseColor = formBaseColor
                 /\ e.opacity = formOpacity
                 /\ IsNearestInteger(e.position.x, last'.pos.x)
                 /\ IsNearestInteger(e.position.y, last'.pos.y)]_vars

\* the machine is Idle: no selection, the draft holds the creation defaults
Idle ==
  /\ selectedShapeId = Null
  /\ currentShapeType = "ellipse"
  /\ formWidth = Num(10)
  /\ formHeight = Num(10)
  /\ formBaseColor = "#007BFF"
  /\ formOpacity = Num(1)

Editing == selectedShapeId # Null /\ Has(shapeState.entities, selectedShapeId)

\* C12: a successful updateSelectedShape on a selected entity gives it the
\* draft's kind, width, height, colour and opacity, keeps its id and
\* position, and changes neither the order nor any other entity.
C12_UpdateReplacesDraftFields ==
  [][(last'.op = "updateSelectedShape" /\ last'.ret /\ Editing)
       => /\ shapeState'.ids = shapeState.ids
          /\ DOMAIN shapeState'.entities = DOMAIN shapeState.entities
          /\ \A id \in DOMAIN shapeState.entities \ {selectedShapeId} :
               shapeState'.entities[id] = shapeState.entities[id]
          /\ LET e == shapeState'.entities[selectedShapeId]
             IN  /\ e.type = currentShapeType
                 /\ e.width = formWidth
                 /\ e.height = formHeight
                 /\ e.baseColor = formBaseColor
                 /\ e.opacity = formOpacity
                 /\ e.id = shapeState.entities[selectedShapeId].id
                 /\ e.position = shapeState.entities[selectedShapeId].position]_vars

C14_RejectedUpdateChangesNothing ==
  [][(last'.op = "updateSelectedShape" /\ Editing /\ DraftRejected)
       => (~last'.ret /\ UNCHANGED storeVars)]_vars

C14_Witness ==
  /\ last.op = "updateSelectedShape"
  /\ ~last.ret
  /\ Editing
  /\ selectedShapeId = Num(7)
  /\ formHeight = Num(0)
  /\ formWidth = Num(4)

\* the order s without every occurrence of x
Removed(s, x) == SelectSeq(s, LAMBDA e : e # x)

C16_RemoveResyncsDraft ==
  [][(last'.op = "removeShape" /\ Editing /\ selectedShapeId = last'.id)
       => IF shapeState'.ids = <<>>
          THEN Idle'
          ELSE LET e == shapeState'.entities[Head(shapeState'.ids)]
               IN  /\ currentShapeType' = e.type
                   /\ formWidth' = e.width
                   /\ formHeight' = e.height
                   /\ formBaseColor' = e.baseColor
                   /\ formOpacity' = e.opacity]_vars

\* C17: moveShape(id, p) on a present id sets that entity's position to p
\* and changes nothing else; on an absent id the state is unchanged.
C17_MoveChangesOnlyPosition ==
  [][(last'.op = "moveShape")
       => IF Has(shapeState.entities, last'.id)
          THEN /\ shapeState'.ids = shapeState.ids
               /\ DOMAIN shapeState'.entities = DOMAIN shapeState.entities
               /\ \A id \in DOMAIN shapeState.entities \ {last'.id} :
                    shapeState'.entities[id] = shapeState.entities[id]
               /\ shapeState'.entities[last'.id] =
                    [shapeState.entities[last'.id] EXCEPT !.position = last'.pos]
               /\ UNCHANGED <<selectedShapeId, draftVars, viewVars, uiVars>>
          ELSE UNCHANGED storeVars]_vars

C17_Witness ==
  /\ last.op = "moveShape"
  /\ Has(shapeState.entities, last.id)
  /\ shapeState.entities[last.id].position = Pos(Num(3), Half)
  /\ Len(shapeState.ids) = MaxLayers
  /\ \E id \in DOMAIN shapeState.entities :
       shapeState.entities[id].position # Pos(Num(3), Half)

\* the 1-based position of x in the order s
Place(s, x) == CHOOSE i \in DOMAIN s : s[i] = x

\* C18: moveShapeLayer(id, direction) on a present id at index i of an order
\* of length n puts id at index n-1 (toFront), 0 (toBack), min(i+1, n-1)
\* (forward) or max(i-1, 0) (backward), keeps the other ids in their
\* relative order and leaves the entities unchanged.
C18_LayerMovePlacesId ==
  [][(last'.op = "moveShapeLayer" /\ last'.id \in Range(shapeState.ids)
        /\ last'.dir \in {"toFront", "toBack", "forward", "backward"})
       => LET id == last'.id
              n == Len(shapeState.ids)
              i == Place(shapeState.ids, id) - 1
              target == CASE last'.dir = "toFront" -> n - 1
                          [] last'.dir = "toBack" -> 0
                          [] last'.dir = "forward" -> IF i + 1 < n - 1 THEN i + 1 ELSE n - 1
                          [] last'.dir = "backward" -> IF i - 1 > 0 THEN i - 1 ELSE 0
          IN  /\ Len(shapeState'.ids) = n
              /\ shapeState'.ids[target + 1] = id
              /\ Removed(shapeState'.ids, id) = Removed(shapeState.ids, id)
              /\ shapeState'.entities = shapeState.entities]_vars

C18_Witness ==
  /\ last.op = "moveShapeLayer"
  /\ last.dir = "forward"
  /\ Len(shapeState.ids) = MaxLayers
  /\ shapeState.ids[2] = last.id

\* C19: on the current order, toFront(id) followed by toBack(id) gives the
\* order back exactly when id is its first element; on an order [a, b, c]
\* toFront(a) gives [b, c, a] and toBack(c) then gives [c, b, a].
C19_FrontThenBack ==
  LET ids == shapeState.ids
  IN  /\ \A id \in Range(ids) :
           (moveShapeLayerOrder(moveShapeLayerOrder(ids, id, "toFront"), id, "toBack") = ids)
             <=> (ids[1] = id)
      /\ Len(ids) = 3 =>
           /\ moveShapeLayerOrder(ids, ids[1], "toFront") = <<ids[2], ids[3], ids[1]>>
           /\ moveShapeLayerOrder(<<ids[2], ids[3], ids[1]>>, ids[3], "toBack")
                = <<ids[3], ids[2], ids[1]>>

\* toBack(3) has produced the order [3, 2, 1]
C19_Witness ==
  /\ last.op = "moveShapeLayer"
  /\ last.dir = "toBack"
  /\ last.id = Num(3)
  /\ shapeState.ids = <<Num(3), Num(2), Num(1)>>

\* C20: setSelectedShapeId(id) with id a key of the entities selects it and
\* copies its kind, width, height, colour and opacity into the draft.
C20_SelectLiveEntity ==
  [][(last'.op = "setSelectedShapeId" /\ Has(shapeState.entities, last'.id))
       => LET e == shapeState.entities[last'.id]
          IN  /\ selectedShapeId' = last'.id
              /\ currentShapeType' = e.type
              /\ formWidth' = e.width
              /\ formHeight' = e.height
              /\ formBaseColor' = e.baseColor
              /\ formOpacity' = e.opacity]_vars

\* C21: setSelectedShapeId(id) with id none or not a key of the entities
\* leaves the machine Idle: nothing selected, the draft at its defaults.
C21_SelectNothingGoesIdle ==
  [][(last'.op = "setSelectedShapeId" /\ ~Has(shapeState.entities, last'.id)) => Idle']_vars

\* C22: the selection is none or the id of an entity of the collection.
C22_SelectionIsLive ==
  selectedShapeId = Null \/ Has(shapeState.entities, selectedShapeId)

\* a shape was selected and another was removed, or hydrated away and re-added
C22_Witness ==
  /\ selectedShapeId = Num(7)
  /\ last.op = "removeShape"
  /\ last.id = Num(1)
  /\ shapeState.ids = <<Num(7)>>

\* the bounding box of the shapes, as [minX, minY, maxX, maxY]
Least(S) == CHOOSE v \in S : \A w \in S : Le(v, w)
Greatest(S) == CHOOSE v \in S : \A w \in S : Ge(v, w)
Entities == {shapeState.entities[id] : id \in DOMAIN shapeState.entities}
World ==
  [minX |-> Least({e.position.x : e \in Entities}),
   minY |-> Least({e.position.y : e \in Entities}),
   maxX |-> Greatest({Add(e.position.x, e.width) : e \in Entities}),
   maxY |-> Greatest({Add(e.position.y, e.height) : e \in Entities})]

\* C23: resetView on an empty collection sets zoom to 10 and the offset to
\* (0, 0), whatever the view was and whatever the viewport is.
C23_ResetViewEmpty ==
  [][(last'.op = "resetView" /\ shapeState.ids = <<>>)
       => (zoom' = Num(10) /\ canvasOffset' = Pos(Num(0), Num(0)))]_vars

C23_Witness ==
  /\ last.op = "resetView"
  /\ last.pos = Pos(Num(120), Num(0))
  /\ shapeState.ids = <<>>
  /\ zoom = Num(10)
  /\ canvasOffset = Pos(Num(0), Num(0))

\* C24: resetView on shapes whose bounding box has positive width and
\* height, in a viewport of finite size vw x vh, sets
\* zoom = clamp(min(max(1, vw-100)/worldW, max(1, vh-100)/worldH)) and an
\* offset with centre * zoom + offset = (vw/2, vh/2); one 10x10 shape at
\* (0,0) in a 300x300 viewport gives the unclamped zoom 20.
C24_ResetViewFits ==
  [][(last'.op = "resetView" /\ shapeState.ids # <<>>
        /\ IsFinite(last'.pos.x) /\ IsFinite(last'.pos.y))
       => \A world \in {World}, vw \in {last'.pos.x}, vh \in {last'.pos.y} :
          \A worldW \in {Sub(world.maxX, world.minX)},
             worldH \in {Sub(world.maxY, world.minY)},
             availableW \in {MathMax(Num(1), Sub(vw, Num(100)))},
             availableH \in {MathMax(Num(1), Sub(vh, Num(100)))},
             centreX \in {Div(Add(world.minX, world.maxX), Num(2))},
             centreY \in {Div(Add(world.minY, world.maxY), Num(2))} :
          \A fitW \in {Div(availableW, worldW)}, fitH \in {Div(availableH, worldH)} :
          \A fit \in {MathMin(fitW, fitH)} :
            (Gt(worldW, Num(0)) /\ Gt(worldH, Num(0)))
              => /\ Le(fit, Num(MIN_ZOOM)) => zoom' = Num(MIN_ZOOM)
                 /\ Ge(fit, Num(MAX_ZOOM)) => zoom' = Num(MAX_ZOOM)
                 /\ (Ge(fit, Num(MIN_ZOOM)) /\ Le(fit, Num(MAX_ZOOM))) => zoom' = fit
                 /\ \A scaledX \in {Mul(centreX, zoom')}, scaledY \in {Mul(centreY, zoom')} :
                      /\ Add(scaledX, canvasOffset'.x) = Div(vw, Num(2))
                      /\ Add(scaledY, canvasOffset'.y) = Div(vh, Num(2))
                 /\ (/\ world = [minX |-> Num(0), minY |-> Num(0),
                                 maxX |-> Num(10), maxY |-> Num(10)]
                     /\ vw = Num(300) /\ vh = Num(300))
                    => fit = Num(20)]_vars

\* one 10x10 shape at (0,0) fitted into a 300x300 viewport
C24_Witness ==
  /\ last.op = "resetView"
  /\ last.pos = Pos(Num(300), Num(300))
  /\ Len(shapeState.ids) = 1
  /\ World = [minX |-> Num(0), minY |-> Num(0), maxX |-> Num(10), maxY |-> Num(10)]
  /\ zoom = Num(20)
  /\ canvasOffset = Pos(Num(50), Num(50))

\* C25: resetView on shapes whose bounding box has width <= 0 or
\* height <= 0 leaves zoom and offset as they were.
C25_ResetViewDegenerateKeepsView ==
  [][(last'.op = "resetView" /\ shapeState.ids # <<>>)
       => \A world \in {World} :
          \A worldW \in {Sub(world.maxX, world.minX)},
             worldH \in {Sub(world.maxY, world.minY)} :
            (Le(worldW, Num(0)) \/ Le(worldH, Num(0))) => UNCHANGED viewVars]_vars

\* C26: once cleanup has run no timer is pending, and from then on nothing
\* is written to storage and no store update schedules a write.
C26_NoWriteAfterCleanup ==
  [][phase' = "torn"
       => /\ ~timer'.pending
          /\ phase = "torn" => (storage' = storage /\ last'.op # "saveWorkspace")]_vars

\* torn down while the timer of an unsaved burst was pending, then a shape added
C26_Witness ==
  /\ phase = "torn"
  /\ last.op = "addShape"
  /\ last.ret
  /\ debounceTimer = "handle"
  /\ lastMutation >= 0
  /\ burstWrites = 0
  /\ storage # CurrentSnapshot

\* C27: a write that fails changes neither the store nor the stored item
\* and leaves the subscription as it is; the next qualifying update arms the
\* timer again, and a write that succeeds stores the whole current snapshot.
C27_FailedWriteAbsorbed ==
  [][/\ (last'.op = "saveWorkspace" /\ ~last'.ret)
          => UNCHANGED <<storeVars, storage, subscribed, phase>>
     /\ (last'.op = "saveWorkspace" /\ last'.ret)
          => (UNCHANGED storeVars /\ storage' = CurrentSnapshot)
     /\ (/\ last.op = "saveWorkspace" /\ ~last.ret /\ phase' = "running"
         /\ <<shapeState, viewVars, uiVars>>' # <<shapeState, viewVars, uiVars>>)
          => (timer'.pending /\ timer'.due = now + DEBOUNCE_MS)]_vars

\* a write failed while shapes were unsaved, and persistence is still running
C27_Witness ==
  /\ last.op = "saveWorkspace"
  /\ ~last.ret
  /\ phase = "running"
  /\ subscribed
  /\ Len(shapeState.ids) > 0
  /\ storage # CurrentSnapshot

\* C28: in every reachable state, saving the store's snapshot and loading it
\* back gives the same shapes in the same order, the same zoom, the same
\* offset and the same two flags.
C28_SaveLoadRoundTrip ==
  \A snapshot \in {getPersistedWorkspace} :
  \A loaded \in {loadWorkspace(savedItem(snapshot))} :
    /\ ~loaded.isNull
    /\ loaded.data.shapes = snapshot.shapes
    /\ loaded.data.zoom = snapshot.zoom
    /\ loaded.data.canvasOffset = snapshot.canvasOffset
    /\ loaded.data.isControlsPanelOpen = snapshot.isControlsPanelOpen
    /\ loaded.data.isShapeListOpen = snapshot.isShapeListOpen

\* C29: in an accepted record each scalar field is validated on its own:
\* zoom is the stored number brought into [MIN_ZOOM, MAX_ZOOM], or 10 when
\* it is not a number; the offset is the stored pair when both coordinates
\* are numbers, else (0, 0); each flag is the stored boolean, else false.
C29_ScalarsValidatedIndependently ==
  (last.op = "initWorkspacePersistence" /\ last.ret)
    => /\ persisted.data.zoom =
            IF storage.zoom.t # "number" THEN Num(10)
            ELSE IF Lt(storage.zoom.num, Num(MIN_ZOOM)) THEN Num(MIN_ZOOM)
            ELSE IF Gt(storage.zoom.num, Num(MAX_ZOOM)) THEN Num(MAX_ZOOM)
            ELSE storage.zoom.num
       /\ persisted.data.canvasOffset =
            IF /\ storage.canvasOffset.t = "object"
               /\ storage.canvasOffset.x.t = "number"
               /\ storage.canvasOffset.y.t = "number"
            THEN Pos(storage.canvasOffset.x.num, storage.canvasOffset.y.num)
            ELSE Pos(Num(0), Num(0))
       /\ persisted.data.isControlsPanelOpen =
            (storage.isControlsPanelOpen.t = "boolean" /\ storage.isControlsPanelOpen.b)
       /\ persisted.data.isShapeListOpen =
            (storage.isShapeListOpen.t = "boolean" /\ storage.isShapeListOpen.b)

\* a record with a valid zoom and flag next to an invalid offset and flag
C29_Witness ==
  /\ last.op = "initWorkspacePersistence"
  /\ last.ret
  /\ storage.zoom = JNum(Num(100))
  /\ storage.canvasOffset.y.t = "string"
  /\ persisted.data.zoom = Num(MAX_ZOOM)
  /\ persisted.data.canvasOffset = Pos(Num(0), Num(0))
  /\ ~persisted.data.isControlsPanelOpen
  /\ persisted.data.isShapeListOpen

\* a draft dimension that is null or <= 0
NotPositive(x) == x.k \in {"null", "ninf"} \/ (x.k = "fin" /\ x.n <= 0)
DraftErrors ==
  (IF NotPositive(formWidth) THEN 1 ELSE 0) + (IF NotPositive(formHeight) THEN 1 ELSE 0)

\* C30: submitting a draft reports one error for each of width and height
\* that is null or <= 0: none when both are positive, one when exactly one
\* is not, two when neither is, from validateDimensions and from the
\* submit handler alike.
C30_EveryErrorReported ==
  [][(last'.op \in {"addShape", "updateSelectedShape"})
       => /\ Len(validateDimensions(formWidth, formHeight)) = DraftErrors
          /\ Len(handleFormSubmitAlerts') = DraftErrors]_vars

\* C31: after a stored record has been loaded and hydrated, no id occurs
\* twice in the order, the ids of the order are the keys of the entities,
\* and the order is as long as the entities are many.
C31_HydratedCollectionInvariant ==
  (last.op = "initWorkspacePersistence" /\ last.ret)
    => /\ NoDuplicates(shapeState.ids)
       /\ Range(shapeState.ids) = DOMAIN shapeState.entities
       /\ Len(shapeState.ids) = Cardinality(DOMAIN shapeState.entities)

\* C32: reorderShapes(fromIndex, toIndex) with both indices inside the order
\* puts the id that was at fromIndex at toIndex, keeps the other ids in
\* their relative order, and leaves the entities and the selection alone.
C32_ReorderMovesOneId ==
  [][(last'.op = "reorderShapes")
       => \A moved \in {shapeState.ids[last'.i + 1]} :
            /\ Len(shapeState'.ids) = Len(shapeState.ids)
            /\ shapeState'.ids[last'.j + 1] = moved
            /\ Removed(shapeState'.ids, moved) = Removed(shapeState.ids, moved)
            /\ shapeState'.entities = shapeState.entities
            /\ selectedShapeId' = selectedShapeId]_vars

\* the first of three shapes was moved to the end while a shape was selected
C32_Witness ==
  /\ last.op = "reorderShapes"
  /\ last.i = 0
  /\ last.j = 2
  /\ shapeState.ids = <<Num(2), Num(3), Num(1)>>
  /\ selectedShapeId = Num(1)

\* C33: moveShapeLayer with an id that is not in the order, or with a
\* direction other than toFront, toBack, forward and backward, leaves the
\* order as it was.
C33_LayerMoveNoOp ==
  [][(/\ last'.op = "moveShapeLayer"
      /\ \/ last'.id \notin Range(shapeState.ids)
         \/ last'.dir \notin {"toFront", "toBack", "forward", "backward"})
       => shapeState'.ids = shapeState.ids]_vars

\* an unknown direction was given for the first of several shapes
C33_Witness ==
  /\ last.op = "moveShapeLayer"
  /\ last.dir = "sideways"
  /\ Len(shapeState.ids) = MaxLayers
  /\ shapeState.ids[1] = last.id

\* the part of the store the subscriber watches
Watched == <<shapeState, zoom, canvasOffset, isControlsPanelOpen, isShapeListOpen>>

Restarted ==
  /\ debounceTimer' = "handle"
  /\ timer' = [pending |-> TRUE, due |-> now + DEBOUNCE_MS]

StoreUpdate == last'.op \notin {"tick", "saveWorkspace", "initWorkspacePersistence"}

C35_EventuallySaved ==
  (phase = "running" /\ lastMutation >= 0) ~> (storage = CurrentSnapshot)

\* the timer of the last watched update has fired and stored two shapes and
\* the closed shape list
C35_Witness ==
  /\ last.op = "saveWorkspace"
  /\ lastMutation >= 0
  /\ ~timer.pending
  /\ ~MutationsGoOn
  /\ Len(shapeState.ids) = 2
  /\ isShapeListOpen # DEFAULT_STATE.isShapeListOpen
  /\ storage = CurrentSnapshot

C37_EntitiesSatisfySchema ==
  \A key \in DOMAIN shapeState.entities :
    /\ SchemaOk(jsonShape(shapeState.entities[key]))
    /\ shapeState.entities[key].id = key

\* C38: startup leaves no timer pending, also when it hydrated the store,
\* and as long as no watched update has been made the stored record is not
\* written.
C38_StartupWritesNothing ==
  [][/\ (last'.op = "initWorkspacePersistence")
          => (~timer'.pending /\ debounceTimer' = "null")
     /\ (lastMutation' < 0)
          => (storage' = storage /\ last'.op # "saveWorkspace")]_vars

\* more than a debounce window after a startup that hydrated shape 7, with
\* no update made since: no timer, no write
C38_Witness ==
  /\ phase = "running"
  /\ ~persisted.isNull
  /\ shapeState.ids = <<Num(7)>>
  /\ lastMutation < 0
  /\ now > 1 + DEBOUNCE_MS
  /\ ~timer.pending
  /\ burstWrites = 0
====
